---- MODULE Spec2Model ----
(***************************************************************************)
(* Model of the quiz application app.py: a Streamlit script whose every    *)
(* run executes main() against the persistent st.session_state.            *)
(*                                                                         *)
(* One action of the model is one script run of main(), triggered by one   *)
(* widget event (or by none: a plain rerun), plus the action Advance that  *)
(* lets the wall clock read by time.time() move on between runs.           *)
(* st.experimental_rerun() ends the run that calls it and requests a new   *)
(* run; the request is the variable rerun, and while it is set no widget   *)
(* event can arrive: the next run is the requested one.                    *)
(*                                                                         *)
(* Python values are encoded so that TLC can compare them:                 *)
(*   - a str is a sequence of one-character strings, <<"A">>;              *)
(*   - an optional value is None == <<>> or Some(v) == <<v>>;              *)
(*   - st.session_state is a function whose DOMAIN is the set of keys      *)
(*     present, so that `del` and `key not in` are what they are in Python.*)
(***************************************************************************)
EXTENDS Integers, Sequences, FiniteSets, TLC

VARIABLES
    sheet,          \* the rows of the Excel sheet read by load_questions
    now,            \* what time.time() returns, in seconds
    session_state,  \* st.session_state
    rerun,          \* st.experimental_rerun() was called by the last run
    screen,         \* what the last run rendered (the widgets the user can act on)
    report,         \* what render_results wrote in the last run, if it ran
    error,          \* the exception that ended the last run, "" if none
    shown           \* history: the positions render_question has rendered
                    \* since the last start_quiz

vars == <<sheet, now, session_state, rerun, screen, report, error, shown>>

----------------------------------------------------------------------------
(* Bounds of the model *)

\* The clock moves in steps of Tick seconds, up to MaxNow.
Tick == 1800
MaxNow == 5400

\* The selectbox of main() offers the quiz lengths [10, 20, 50]; the model
\* keeps three lengths and scales them down.
CountSmall == 2
CountMedium == 3
CountLarge == 4

\* The number of positions of the sessions the scoring harness starts from.
ScoreLen == 3

----------------------------------------------------------------------------
(* Python values *)

None == <<>>
Some(v) == <<v>>
Val(o) == o[1]

\* str(x) for x a str or None
NoneStr == <<"N", "o", "n", "e">>
Str(o) == IF o = None THEN NoneStr ELSE Val(o)

LowerLetters == <<"a","b","c","d","e","f","g","h","i","j","k","l","m",
                  "n","o","p","q","r","s","t","u","v","w","x","y","z">>
UpperLetters == <<"A","B","C","D","E","F","G","H","I","J","K","L","M",
                  "N","O","P","Q","R","S","T","U","V","W","X","Y","Z">>

UpperChar(c) ==
    IF \E i \in 1..Len(LowerLetters) : LowerLetters[i] = c
    THEN UpperLetters[CHOOSE i \in 1..Len(LowerLetters) : LowerLetters[i] = c]
    ELSE c

\* str.upper()
Upper(s) == [i \in 1..Len(s) |-> UpperChar(s[i])]

IsSpace(c) == c \in {" ", "\t", "\n", "\r", "\f"}

\* str.strip(): drops the leading and the trailing whitespace
Strip(s) ==
    LET nonspace == {i \in 1..Len(s) : ~IsSpace(s[i])}
    IN  IF nonspace = {} THEN <<>>
        ELSE LET first == CHOOSE i \in nonspace : \A j \in nonspace : i <= j
                 last  == CHOOSE i \in nonspace : \A j \in nonspace : j <= i
             IN  SubSeq(s, first, last)

----------------------------------------------------------------------------
(* load_questions *)

OptionColumns == <<"A", "B", "C", "D", "E">>

\* A row of the sheet: the cell of each column, None for an empty cell (NaN).
RawRow(tt, question, a, b, c, d, e, correct) ==
    [index |-> tt, question |-> question,
     A |-> a, B |-> b, C |-> c, D |-> d, E |-> e, correct |-> correct]

Text == Some("text")

\* The sheets the model reads are the prefixes of this one. Row 2 has no
\* option A and its answer key typed in lower case between blanks; row 3 has
\* no question text; the answer key of row 4 is the text none; row 5 has no
\* option at all.
MasterSheet == <<
    RawRow(1, Text, Text, Text, None, None, None, Some(<<"A">>)),
    RawRow(2, Text, None, Text, Text, None, None, Some(<<" ", "c", " ">>)),
    RawRow(3, None, Text, Text, None, None, None, Some(<<"A">>)),
    RawRow(4, Text, Text, Text, None, None, None, Some(<<"n", "o", "n", "e">>)),
    RawRow(5, Text, None, None, None, None, None, Some(<<"A">>)) >>

Sheets == {SubSeq(MasterSheet, 1, n) : n \in 0..Len(MasterSheet)}

\* astype(str) of a cell: an empty cell is NaN, whose str is "nan"
CellStr(cell) == IF cell = None THEN <<"n", "a", "n">> ELSE Val(cell)

NotNa(cell) == cell # None

RECURSIVE DropNa(_)
DropNa(rows) ==
    IF rows = <<>> THEN <<>>
    ELSE IF NotNa(Head(rows).question)
         THEN <<Head(rows)>> \o DropNa(Tail(rows))
         ELSE DropNa(Tail(rows))

load_questions(excel) ==
    LET df == DropNa(excel)
    IN  [i \in 1..Len(df) |->
            [df[i] EXCEPT !.correct = Upper(Strip(CellStr(df[i].correct)))]]

----------------------------------------------------------------------------
(* initialise_session *)

state_defaults ==
    [quiz_started |-> FALSE, quiz_ended |-> FALSE, num_questions |-> 0,
     questions |-> None, current_q |-> 0, answers |-> <<>>,
     start_time |-> None]

initialise_session(ss) ==
    [key \in DOMAIN ss \cup DOMAIN state_defaults |->
        IF key \in DOMAIN ss THEN ss[key] ELSE state_defaults[key]]

----------------------------------------------------------------------------
(* What a script run leaves behind *)

NoScreen == [kind |-> "none", keys |-> <<>>, prev |-> FALSE, last |-> FALSE,
     idx |-> 0]
SetupScreen == [kind |-> "setup", keys |-> <<>>, prev |-> FALSE, last |-> FALSE,
     idx |-> 0]
ResultsScreen == [kind |-> "results", keys |-> <<>>, prev |-> FALSE, last |-> FALSE,
     idx |-> 0]
ErrorScreen == [kind |-> "error", keys |-> <<>>, prev |-> FALSE, last |-> FALSE,
     idx |-> 0]

\* disabled=(idx == 0) of the button back
PrevNeverDisabled(idx) == FALSE
PrevDisabled(idx) == idx = 0

\* idx < total - 1: the button next is shown, else the button submit
NotLastEarly(idx, total) == idx < total - 2
NotLast(idx, total) == idx < total - 1

QuestionScreen(option_keys, idx, total) ==
    [kind |-> "question", keys |-> option_keys,
     prev |-> ~PrevDisabled(idx), last |-> ~NotLast(idx, total),
     idx |-> idx]

Outcome(ss, rr, scr, rep, err) ==
    [ss |-> ss, rerun |-> rr, screen |-> scr, report |-> rep, error |-> err]

----------------------------------------------------------------------------
(* start_quiz *)

\* The selectbox of main()
Menu == {CountSmall, CountMedium, CountLarge}

\* df.sample(n, replace=False).reset_index(drop=True): the rows at n distinct
\* positions of df, in any order
SampleWithReplacement(df, n) ==
    {[i \in 1..n |-> df[p[i]]] : p \in [1..n -> 1..Len(df)]}
Sample(df, n) ==
    {[i \in 1..n |-> df[p[i]]] :
        p \in {q \in [1..n -> 1..Len(df)] :
                 \A i, j \in 1..n : i # j => q[i] # q[j]}}

\* df.sample raises ValueError when n is larger than the population
SampleRaises(df, n) == n > Len(df)

\* lines 69-71, which run before the sampling
start_quiz_flags_no_count(ss, num_questions) ==
    [ss EXCEPT !.quiz_started = TRUE, !.quiz_ended = FALSE]
start_quiz_flags(ss, num_questions) ==
    [ss EXCEPT !.quiz_started = TRUE, !.quiz_ended = FALSE,
               !.num_questions = num_questions]

AllNone(n) == [i \in 1..n |-> None]

start_quiz_stale_time(ss, sampled, num_questions, t) ==
    [start_quiz_flags(ss, num_questions) EXCEPT
        !.questions = Some(sampled),
        !.current_q = 0,
        !.answers = AllNone(num_questions),
        !.start_time = Some(0)]
start_quiz(ss, sampled, num_questions, t) ==
    [start_quiz_flags(ss, num_questions) EXCEPT
        !.questions = Some(sampled),
        !.current_q = 0,
        !.answers = AllNone(num_questions),
        !.start_time = Some(t)]

----------------------------------------------------------------------------
(* render_timer *)

TimeLimit == 3600

ExpiredStrict(remaining) == remaining < 0
Expired(remaining) == remaining <= 0

render_timer(ss, t, total_seconds) ==
    LET elapsed == t - Val(ss.start_time)
        remaining == total_seconds - elapsed
    IN  IF Expired(remaining) THEN [ss EXCEPT !.quiz_ended = TRUE] ELSE ss

----------------------------------------------------------------------------
(* render_question *)

\* The keys of the options whose text is present, in the order A..E
OptionKeysAll(row) == [i \in 1..Len(OptionColumns) |-> <<OptionColumns[i]>>]
OptionKeys(row) ==
    LET present == SelectSeq(OptionColumns, LAMBDA k : NotNa(row[k]))
    IN  [i \in 1..Len(present) |-> <<present[i]>>]

IndexOf(seq, x) == CHOOSE i \in 1..Len(seq) : seq[i] = x

InSeq(seq, x) == \E i \in 1..Len(seq) : seq[i] = x

\* st.radio(options, index): the option the user has just selected, else the
\* option at index; None when there are no options
RadioFirst(option_keys, preselect, ev, label) ==
    IF option_keys = <<>> THEN None
    ELSE IF ev = "select" /\ InSeq(option_keys, label) THEN Some(label)
    ELSE Some(option_keys[1])
RadioNoDefault(option_keys, preselect, ev, label) ==
    IF option_keys = <<>> THEN None
    ELSE IF ev = "select" /\ InSeq(option_keys, label) THEN Some(label)
    ELSE IF preselect # None THEN Some(option_keys[Val(preselect)])
    ELSE None
Radio(option_keys, preselect, ev, label) ==
    IF option_keys = <<>> THEN None
    ELSE IF ev = "select" /\ InSeq(option_keys, label) THEN Some(label)
    ELSE Some(option_keys[IF preselect # None THEN Val(preselect) ELSE 1])

\* st.session_state.answers[idx] = choice
record_answer_toggle(ss, idx, choice) ==
    [ss EXCEPT !.answers[idx + 1] = IF @ = choice THEN None ELSE choice]
record_answer_fill(ss, idx, choice) ==
    [ss EXCEPT !.answers = [i \in DOMAIN @ |-> choice]]
record_answer(ss, idx, choice) == [ss EXCEPT !.answers[idx + 1] = choice]

render_question(ss, ev, label) ==
    LET idx == ss.current_q
        total == ss.num_questions
        question_row == Val(ss.questions)[idx + 1]
        option_keys == OptionKeys(question_row)
        prev_answer == ss.answers[idx + 1]
        preselect ==
            IF prev_answer # None /\ InSeq(option_keys, Val(prev_answer))
            THEN Some(IndexOf(option_keys, Val(prev_answer)))
            ELSE None
        choice == Radio(option_keys, preselect, ev, label)
        s1 == record_answer(ss, idx, choice)
        scr == QuestionScreen(option_keys, idx, total)
    IN  IF ev = "prev" /\ ~PrevDisabled(idx)
        THEN Outcome([s1 EXCEPT !.current_q = @ - 1], TRUE, scr, None, "")
        ELSE IF NotLast(idx, total)
        THEN IF ev = "next"
             THEN Outcome([s1 EXCEPT !.current_q = @ + 1], TRUE, scr, None, "")
             ELSE Outcome(s1, FALSE, scr, None, "")
        ELSE IF ev = "submit"
             THEN Outcome([s1 EXCEPT !.quiz_ended = TRUE], TRUE, scr, None, "")
             ELSE Outcome(s1, FALSE, scr, None, "")

----------------------------------------------------------------------------
(* render_results *)

\* f"{(num_correct / total) * 100:.1f}", as a number of tenths of a percent:
\* the nearest tenth, the even one of two equally near
FormatPercent(num_correct, total) ==
    LET q == (1000 * num_correct) \div total
        r == (1000 * num_correct) % total
    IN  IF 2 * r < total THEN q
        ELSE IF 2 * r > total THEN q + 1
        ELSE IF q % 2 = 0 THEN q ELSE q + 1

IsCorrectExact(user_key, correct_key) == Str(user_key) = correct_key
IsCorrect(user_key, correct_key) ==
    \E user \in {Strip(Str(user_key))}, correct \in {Strip(correct_key)} :
        Upper(user) = Upper(correct)

ResetKeysButStarted == {"quiz_ended", "num_questions", "questions",
                        "current_q", "answers", "start_time"}
ResetKeysButAnswers == {"quiz_started", "quiz_ended", "num_questions",
                        "questions", "current_q", "start_time"}
ResetKeys == {"quiz_started", "quiz_ended", "num_questions", "questions",
              "current_q", "answers", "start_time"}

render_results(ss, ev) ==
    LET df == Val(ss.questions)
        total == ss.num_questions
        user_answers == ss.answers
        correct_list ==
            [i \in 1..total |-> IsCorrect(user_answers[i], df[i].correct)]
        num_correct == Cardinality({i \in 1..total : correct_list[i]})
    IN  IF total = 0
        THEN Outcome(ss, FALSE, ErrorScreen, None, "ZeroDivisionError")
        ELSE LET rep == Some([num_correct |-> num_correct,
                              total |-> total,
                              score_percent |-> FormatPercent(num_correct, total),
                              correct_list |-> correct_list])
             IN  IF ev = "restart"
                 THEN Outcome([key \in DOMAIN ss \ ResetKeys |-> ss[key]],
                              TRUE, ResultsScreen, rep, "")
                 ELSE Outcome(ss, FALSE, ResultsScreen, rep, "")

----------------------------------------------------------------------------
(* main *)

\* One run of the script, started by widget event ev (with the label selected
\* or the length chosen, and the rows the sampling draws), at time t.
main_timer_last(ss0, df, t, ev, label, num, sampled) ==
    LET ss == initialise_session(ss0)
    IN  IF ~ss.quiz_started
        THEN IF ev = "start"
             THEN IF SampleRaises(df, num)
                  THEN Outcome(start_quiz_flags(ss, num), FALSE, SetupScreen,
                               None, "ValueError")
                  ELSE Outcome(start_quiz(ss, sampled, num, t), TRUE,
                               SetupScreen, None, "")
             ELSE Outcome(ss, FALSE, SetupScreen, None, "")
        ELSE IF ss.start_time = None
             THEN Outcome(ss, FALSE, ErrorScreen, None, "TypeError")
             ELSE IF ss.quiz_ended
                  THEN render_results(ss, ev)
                  ELSE LET out == render_question(ss, ev, label)
                       IN  [out EXCEPT !.ss = render_timer(@, t, TimeLimit)]
main(ss0, df, t, ev, label, num, sampled) ==
    LET ss == initialise_session(ss0)
    IN  IF ~ss.quiz_started
        THEN IF ev = "start"
             THEN IF SampleRaises(df, num)
                  THEN Outcome(start_quiz_flags(ss, num), FALSE, SetupScreen,
                               None, "ValueError")
                  ELSE Outcome(start_quiz(ss, sampled, num, t), TRUE,
                               SetupScreen, None, "")
             ELSE Outcome(ss, FALSE, SetupScreen, None, "")
        ELSE IF ss.start_time = None
             THEN \* time.time() - None
                  Outcome(ss, FALSE, ErrorScreen, None, "TypeError")
             ELSE \* s1 is the session as render_timer leaves it, computed once
                  CHOOSE out \in
                      {IF s1.quiz_ended
                       THEN render_results(s1, ev)
                       ELSE render_question(s1, ev, label)
                          : s1 \in {render_timer(ss, t, TimeLimit)}} : TRUE

----------------------------------------------------------------------------
(* The state machine *)

Init ==
    /\ sheet \in Sheets
    /\ now = 0
    /\ session_state = <<>>
    /\ rerun = FALSE
    /\ screen = NoScreen
    /\ report = None
    /\ error = ""
    /\ shown = {}

\* The positions rendered since the last start_quiz, after a run that
\* rendered scr
Shown(scr, rr) ==
    IF scr.kind = "question" THEN shown \cup {scr.idx}
    ELSE IF scr.kind = "setup" /\ rr THEN {}
    ELSE shown

Run(ev, label, num, sampled) ==
    \E out \in {main(session_state, load_questions(sheet), now, ev, label, num,
                     sampled)} :
        /\ session_state' = out.ss
        /\ rerun' = out.rerun
        /\ screen' = out.screen
        /\ report' = out.report
        /\ error' = out.error
        /\ shown' = Shown(out.screen, out.rerun)
        /\ UNCHANGED <<sheet, now>>

\* The wall clock moves on.
Advance ==
    /\ now + Tick <= MaxNow
    /\ now' = now + Tick
    /\ UNCHANGED <<sheet, session_state, rerun, screen, report, error, shown>>

\* A run without a widget event: the first run, the run requested by
\* st.experimental_rerun(), or a rerun of the page.
View == Run("none", <<>>, 0, <<>>)

\* The user presses the start button of the setup panel.
ClickStart(num) ==
    /\ ~rerun
    /\ screen.kind = "setup"
    /\ LET df == load_questions(sheet)
       IN  IF SampleRaises(df, num)
           THEN Run("start", <<>>, num, <<>>)
           ELSE \E sampled \in Sample(df, num) : Run("start", <<>>, num, sampled)

\* The user selects an option of the question shown.
SelectOption(label) ==
    /\ ~rerun
    /\ screen.kind = "question"
    /\ InSeq(screen.keys, label)
    /\ Run("select", label, 0, <<>>)

ClickPrevious ==
    /\ ~rerun
    /\ screen.kind = "question"
    /\ screen.prev
    /\ Run("prev", <<>>, 0, <<>>)

ClickNext ==
    /\ ~rerun
    /\ screen.kind = "question"
    /\ ~screen.last
    /\ Run("next", <<>>, 0, <<>>)

ClickSubmit ==
    /\ ~rerun
    /\ screen.kind = "question"
    /\ screen.last
    /\ Run("submit", <<>>, 0, <<>>)

ClickRestart ==
    /\ ~rerun
    /\ screen.kind = "results"
    /\ Run("restart", <<>>, 0, <<>>)

Labels == {<<OptionColumns[i]>> : i \in 1..Len(OptionColumns)}

Next ==
    \/ Advance
    \/ View
    \/ \E num \in Menu : ClickStart(num)
    \/ \E label \in Labels : SelectOption(label)
    \/ ClickPrevious
    \/ ClickNext
    \/ ClickSubmit
    \/ ClickRestart

Spec == Init /\ [][Next]_vars

----------------------------------------------------------------------------
(* Views of the session *)

\* The value of a key as the next run reads it, after initialise_session
Field(ss, key) == IF key \in DOMAIN ss THEN ss[key] ELSE state_defaults[key]

Started == Field(session_state, "quiz_started")
Ended == Started /\ Field(session_state, "quiz_ended")

Phase == IF ~Started THEN "Setup" ELSE IF Ended THEN "Ended" ELSE "InProgress"

TypeOK ==
    /\ sheet \in Sheets
    /\ now \in 0..MaxNow
    /\ rerun \in BOOLEAN
    /\ error \in {"", "ValueError", "TypeError", "ZeroDivisionError"}
    /\ DOMAIN session_state \in {{}, ResetKeys}

num_questions == Field(session_state, "num_questions")
current_q == Field(session_state, "current_q")
answers == Field(session_state, "answers")
questions == Field(session_state, "questions")
start_time == Field(session_state, "start_time")

\* A session whose start_quiz ran to its end
Sampled == Started /\ questions # None /\ start_time # None

----------------------------------------------------------------------------
(* The scoring harness: render_results on ended sessions whose answer keys  *)
(* and recorded answers are drawn from small sets, the answers including    *)
(* strings the radio button never returns.                                  *)

ScoreKeys == {<<"A">>, <<"B">>, <<"C">>, NoneStr}
ScoreAnswers == {None, Some(<<"A">>), Some(<<"b">>), Some(<<"D">>)}

ScoreRow(i, key) ==
    [index |-> i, question |-> Text,
     A |-> Text, B |-> Text, C |-> Text, D |-> Text, E |-> None,
     correct |-> Upper(Strip(key))]

InitScore ==
    /\ sheet = MasterSheet
    /\ now = 0
    /\ rerun = FALSE
    /\ screen = NoScreen
    /\ report = None
    /\ error = ""
    /\ shown = {}
    /\ \E n \in 1..ScoreLen :
         \E keys \in [1..n -> ScoreKeys], ans \in [1..n -> ScoreAnswers] :
            session_state =
                [quiz_started |-> TRUE, quiz_ended |-> TRUE,
                 num_questions |-> n,
                 questions |-> Some([i \in 1..n |-> ScoreRow(i, keys[i])]),
                 current_q |-> n - 1, answers |-> ans,
                 start_time |-> Some(0)]

NextScore == View

SpecScore == InitScore /\ [][NextScore]_vars

----------------------------------------------------------------------------
(* Claims *)

\* Seconds since start_quiz, for a session whose start_quiz ran to its end
Elapsed == now - Val(start_time)

\* A step that is a script run: every action but Advance
IsRun == now' = now

\* C1: a script run (a state read) of an in-progress session at a time with
\* now - start_time >= 3600 leaves the session ended, at whatever question
\* it is and without a submit.
C1_TimerExpiryEnds ==
    [][(Phase = "InProgress" /\ Sampled /\ Elapsed >= 3600 /\ IsRun)
        => Phase' = "Ended"]_vars

\* An ended session that was not at its last question, where submit is not
\* offered: the timer ended it, and its results were rendered.
C1_Witness ==
    /\ Phase = "Ended"
    /\ Sampled
    /\ Elapsed >= 3600
    /\ current_q < num_questions - 1
    /\ report # None

\* C2: a start that fails for want of questions leaves the session as it
\* was, in Setup with every field at its default, and no later run fails.
C2_FailedStartKeepsSetup ==
    /\ error = "ValueError"
        => Phase = "Setup" /\ initialise_session(session_state) = state_defaults
    /\ error # "TypeError"

\* C3: the phase changes only Setup -> InProgress by the start button,
\* InProgress -> Ended by the submit button or by the timer, and
\* Ended -> Setup by the restart button.
C3_PhaseTransitions ==
    [][\/ Phase' = Phase
       \/ /\ Phase = "Setup" /\ Phase' = "InProgress"
          /\ screen.kind = "setup" /\ ~rerun
       \/ /\ Phase = "InProgress" /\ Phase' = "Ended"
          /\ \/ screen.kind = "question" /\ screen.last /\ ~rerun
             \/ Elapsed >= 3600
       \/ /\ Phase = "Ended" /\ Phase' = "Setup"
          /\ screen.kind = "results" /\ ~rerun]_vars

\* Right after the restart button: the session went from Setup through
\* InProgress and Ended, whose results are still on the screen, to Setup.
C3_Witness ==
    /\ Phase = "Setup"
    /\ rerun
    /\ screen.kind = "results"
    /\ report # None

Bank == load_questions(sheet)

Scored == Ended /\ Sampled /\ report # None /\ ~rerun

\* A recorded answer equals the answer key, blanks trimmed and case ignored
SameLabel(answer, key) ==
    answer # None /\ Upper(Strip(Val(answer))) = Upper(Strip(key))

\* C5: in the results of an ended session, position i is counted correct
\* exactly when the answer recorded at i equals the answer key of question
\* i, blanks trimmed and case ignored, and num_correct is the number of
\* such positions, between 0 and the number of questions.
C5_ScoreCountsMatches ==
    Scored =>
        /\ \A i \in 1..num_questions :
             Val(report).correct_list[i]
                <=> SameLabel(answers[i], Val(questions)[i].correct)
        /\ Val(report).num_correct =
             Cardinality({i \in 1..num_questions :
                 SameLabel(answers[i], Val(questions)[i].correct)})
        /\ 0 <= Val(report).num_correct
        /\ Val(report).num_correct <= Val(report).total

\* C6: in the results of an ended session, every position without a
\* recorded answer is counted incorrect, whatever the answer key of its
\* question.
C6_UnansweredIsIncorrect ==
    Scored =>
        \A i \in 1..num_questions :
            answers[i] = None => ~Val(report).correct_list[i]

\* The session of the example: answer keys A, B, C and answers A, b, D
IsExample ==
    /\ Scored
    /\ num_questions = 3
    /\ [i \in 1..3 |-> Val(questions)[i].correct] = <<<<"A">>, <<"B">>, <<"C">>>>
    /\ answers = <<Some(<<"A">>), Some(<<"b">>), Some(<<"D">>)>>

\* C7, as the specification states it: the example scores 1 correct answer
\* and 33.3 percent.
C7_ExampleScoresOne ==
    IsExample =>
        /\ Val(report).num_correct = 1
        /\ Val(report).score_percent = 333

\* C7, amended: the example scores 2 correct answers, at positions 0 and 1
\* (b matches B, case ignored), and 66.7 percent.
C7_ExampleScoresTwo ==
    IsExample =>
        /\ Val(report).num_correct = 2
        /\ Val(report).correct_list = <<TRUE, TRUE, FALSE>>
        /\ Val(report).score_percent = 667

C7_Witness == IsExample

\* C8: while a session lasts, a recorded answer changes only when the user
\* selects another option of the question shown, so that the runs of the
\* buttons back and next, the reruns and the answers given elsewhere leave
\* it as it was, and it is never cleared.
C8_AnswersPreserved ==
    [][(Sampled /\ Sampled')
        => \A i \in 1..num_questions :
             answers[i] # None =>
                \/ answers'[i] = answers[i]
                \/ /\ i = current_q + 1
                   /\ screen.kind = "question" /\ ~rerun
                   /\ answers'[i] # None
                   /\ InSeq(screen.keys, Val(answers'[i]))
                   /\ current_q' = current_q]_vars

\* Back at question 0, rendered again, with the second option recorded
\* there and an answer recorded at the next question.
C8_Witness ==
    /\ Phase = "InProgress"
    /\ Sampled
    /\ ~rerun
    /\ screen.kind = "question"
    /\ current_q = 0
    /\ Len(screen.keys) >= 2
    /\ answers[1] = Some(screen.keys[2])
    /\ answers[2] # None

\* C9: in an in-progress or ended session 0 <= current_q <= num_questions - 1;
\* a run changes current_q by one at most, except to start the session or
\* to reset it; the button back is available exactly above question 0 and
\* the button next exactly below the last question.
C9_IndexInRange ==
    /\ [](Phase \in {"InProgress", "Ended"}
            => 0 <= current_q /\ current_q <= num_questions - 1)
    /\ []((Phase = "InProgress" /\ screen.kind = "question" /\ ~rerun)
            => /\ screen.prev <=> current_q > 0
               /\ ~screen.last <=> current_q < num_questions - 1)
    /\ [][(Sampled /\ Sampled' /\ current_q' # current_q)
            => /\ Phase = "InProgress"
               /\ \/ current_q' = current_q + 1 /\ ~screen.last
                  \/ current_q' = current_q - 1 /\ screen.prev]_vars

\* At the last question after the button next, with the rerun done.
C9_Witness ==
    /\ Phase = "InProgress"
    /\ Sampled
    /\ ~rerun
    /\ screen.kind = "question"
    /\ current_q = num_questions - 1
    /\ num_questions = CountLarge

\* C10: an in-progress session is ended by the submit button only at its
\* last question; before it the submit button is not offered, and a run
\* that ends the session there is one at which the time is up.
C10_SubmitOnlyAtLast ==
    /\ []((Phase = "InProgress" /\ screen.kind = "question" /\ ~rerun
              /\ current_q < num_questions - 1)
            => ~screen.last)
    /\ [][(Phase = "InProgress" /\ Sampled /\ Phase' = "Ended"
              /\ Elapsed < 3600)
            => /\ current_q = num_questions - 1
               /\ screen.kind = "question" /\ screen.last /\ ~rerun]_vars

\* Submitted in time: ended with the time not up, the rerun still to come.
C10_Witness ==
    /\ Phase = "Ended"
    /\ Sampled
    /\ Elapsed < 3600
    /\ rerun
    /\ current_q = num_questions - 1

\* C11: the restart button is offered only by the results of an ended
\* session; the run it starts leaves a session that the next run reads,
\* after initialise_session, as a new one, every field at its default,
\* whatever the questions and the answers of the ended session; and so is
\* every session in Setup.
C11_ResetRoundTrip ==
    /\ []((screen.kind = "results" /\ ~rerun) => Phase = "Ended")
    /\ [](Phase = "Setup"
            => initialise_session(session_state) = state_defaults)
    /\ [][(Phase = "Ended" /\ Phase' # "Ended")
            => /\ screen.kind = "results" /\ ~rerun
               /\ initialise_session(session_state') = state_defaults]_vars

\* Right after the restart button on results that counted a correct answer:
\* the keys of the session are gone.
C11_Witness ==
    /\ Phase = "Setup"
    /\ rerun
    /\ screen.kind = "results"
    /\ report # None
    /\ Val(report).num_correct > 0
    /\ DOMAIN session_state = {}

\* C12: in an in-progress session whose time is not up, the run started by
\* selecting the option that is already recorded at the question shown
\* leaves st.session_state as it was.
C12_RecordIdempotent ==
    [][(/\ Phase = "InProgress" /\ Sampled /\ Elapsed < 3600
        /\ \E label \in Labels :
              /\ answers[current_q + 1] = Some(label)
              /\ SelectOption(label))
        => session_state' = session_state]_vars

\* The second option of the question shown was selected and recorded.
C12_Witness ==
    /\ Phase = "InProgress"
    /\ Sampled
    /\ ~rerun
    /\ screen.kind = "question"
    /\ Len(screen.keys) >= 2
    /\ answers[current_q + 1] = Some(screen.keys[2])

\* C13: a run of an in-progress session at a time with
\* now - start_time >= 3600, whatever the widget event that started it,
\* ends the session and changes neither answers nor current_q.
C13_ExpiryBeforeMutation ==
    [][(Phase = "InProgress" /\ Sampled /\ Elapsed >= 3600 /\ IsRun)
        => /\ Phase' = "Ended"
           /\ answers' = answers
           /\ current_q' = current_q]_vars

\* Ended by the timer at a question that render_question never rendered:
\* the button next was pressed and the time was up at the rerun.
C13_Witness ==
    /\ Phase = "Ended"
    /\ Sampled
    /\ Elapsed >= 3600
    /\ screen.kind = "results"
    /\ current_q > 0
    /\ current_q \notin shown
    /\ answers[current_q + 1] = None

\* The number of sampled questions, 0 when there are none
NumSampled == IF questions = None THEN 0 ELSE Len(Val(questions))

\* C14: in every state answers is as long as the sampled questions are
\* many, and in an in-progress or ended session both are num_questions.
C14_AnswersMatchQuestions ==
    /\ Len(answers) = NumSampled
    /\ Phase \in {"InProgress", "Ended"}
        => Len(answers) = num_questions /\ NumSampled = num_questions

\* C15: in an in-progress or ended session num_questions is one of the
\* lengths of the menu, all positive; so render_results never divides by
\* zero, and the percentage it reports is 100 * num_correct / total to the
\* nearest tenth.
C15_CountFromMenu ==
    /\ Phase \in {"InProgress", "Ended"}
        => /\ num_questions \in {CountSmall, CountMedium, CountLarge}
           /\ num_questions > 0
    /\ error # "ZeroDivisionError"
    /\ report # None
        => /\ Val(report).total > 0
           /\ Val(report).total \in {CountSmall, CountMedium, CountLarge}
           /\ LET d == Val(report).score_percent * Val(report).total
                        - 1000 * Val(report).num_correct
              IN  2 * d <= Val(report).total /\ -2 * d <= Val(report).total

\* Results of a session of the largest length with a part of the answers
\* correct.
C15_Witness ==
    /\ Scored
    /\ num_questions = CountLarge
    /\ Val(report).num_correct > 0
    /\ Val(report).num_correct < Val(report).total

\* C16: a session becomes ended only in a run of an in-progress session at
\* which the submit button of the last question was pressed or the time
\* since the start of that very session is 3600 seconds or more; start_quiz
\* sets the start of the session to the time of the run.
C16_EndedBySubmitOrTimer ==
    /\ [][(Phase # "Ended" /\ Phase' = "Ended")
            => /\ Phase = "InProgress" /\ Sampled /\ IsRun
               /\ \/ /\ screen.kind = "question" /\ screen.last /\ ~rerun
                     /\ current_q = num_questions - 1
                  \/ now - Val(start_time) >= 3600]_vars
    /\ [][(Phase = "Setup" /\ Phase' # "Setup" /\ start_time' # None)
            => start_time' = Some(now)]_vars

\* A session started later than time 0 whose question is rendered at a time
\* at which a session started at 0 has expired.
C16_Witness ==
    /\ Phase = "InProgress"
    /\ Sampled
    /\ ~rerun
    /\ screen.kind = "question"
    /\ Val(start_time) > 0
    /\ now >= 3600
    /\ Elapsed < 3600

\* The labels of the options of a row whose text is present
PresentLabels(row) ==
    {<<OptionColumns[i]>> : i \in {j \in 1..Len(OptionColumns) :
                                      row[OptionColumns[j]] # None}}

\* C17: every recorded answer is the label of an option of its own
\* question whose text is present.
C17_AnswersArePresentLabels ==
    Sampled =>
        \A i \in 1..num_questions :
            answers[i] # None
                => Val(answers[i]) \in PresentLabels(Val(questions)[i])

\* An answer recorded for a question without option A, another one for a
\* question with option A.
C17_Witness ==
    /\ Sampled
    /\ \E i, j \in 1..num_questions :
          /\ Val(questions)[i].A = None
          /\ answers[i] # None
          /\ Val(questions)[j].A # None
          /\ answers[j] # None
          /\ answers[j] # answers[i]

FirstPresent(row) ==
    IF PresentLabels(row) = {} THEN None
    ELSE LET first == CHOOSE i \in 1..Len(OptionColumns) :
                        /\ <<OptionColumns[i]>> \in PresentLabels(row)
                        /\ \A j \in 1..(i - 1) :
                              <<OptionColumns[j]>> \notin PresentLabels(row)
         IN  Some(<<OptionColumns[first]>>)

\* C19, as it is stated: the answer at a position is absent exactly when
\* the position was never rendered in this session.
C19_AbsentIffNeverShown ==
    Sampled =>
        \A i \in 1..num_questions : answers[i] = None <=> (i - 1) \notin shown

\* C19, amended: a run that renders a question whose answer is absent
\* records the first present option label of the question, or leaves the
\* answer absent when the question has no option; so the answer at a
\* position is absent exactly when the position was never rendered in this
\* session or its question has no option.
C19_RenderRecordsFirstOption ==
    /\ [](Sampled =>
            \A i \in 1..num_questions :
                answers[i] = None
                    <=> \/ (i - 1) \notin shown
                        \/ PresentLabels(Val(questions)[i]) = {})
    /\ [][(/\ Phase = "InProgress" /\ Sampled /\ IsRun
           /\ screen'.kind = "question"
           /\ answers[screen'.idx + 1] = None)
            => answers'[screen'.idx + 1]
                  = FirstPresent(Val(questions)[screen'.idx + 1])]_vars

\* A question without option A was rendered and has B recorded, a question
\* without any option was rendered and has no answer.
C19_Witness ==
    /\ Sampled
    /\ \E i, j \in 1..num_questions :
          /\ (i - 1) \in shown
          /\ Val(questions)[i].A = None
          /\ answers[i] = Some(<<"B">>)
          /\ (j - 1) \in shown
          /\ PresentLabels(Val(questions)[j]) = {}
          /\ answers[j] = None

----------------------------------------------------------------------------
(* Liveness: the clock keeps advancing and the script keeps being run *)

\* A start early enough for the bounded clock of the model to reach the
\* time limit of the session
ClickStartInTime(num) ==
    /\ now + TimeLimit + Tick <= MaxNow
    /\ ClickStart(num)

NextLive ==
    \/ Advance
    \/ View
    \/ \E num \in Menu : ClickStartInTime(num)
    \/ \E label \in Labels : SelectOption(label)
    \/ ClickPrevious
    \/ ClickNext
    \/ ClickSubmit
    \/ ClickRestart

\* Time passes, and Streamlit runs the script again and again: weak fairness
\* of the clock and of the run without a widget event. The user is under no
\* obligation: no button is ever required to be pressed.
SpecLive ==
    /\ Init
    /\ [][NextLive]_vars
    /\ WF_vars(Advance)
    /\ WF_vars(View)

\* C20: with the clock advancing and the script being run again and again,
\* every session that is started and not ended is eventually ended,
\* whatever the user does. (It is for the sessions whose start_quiz ran to
\* its end; the session a failed start leaves behind never ends.)
C20_EventuallyEnded == (Phase = "InProgress") ~> (Phase = "Ended")

====
